---- MODULE Spec2Model ----
(***************************************************************************)
(* The cache subsystem of open-canvas:                                     *)
(*   EnhancedCacheManager  (src/unnamed/part_006, lines 98-561)            *)
(*   RedisCacheManager     (apps/web/src/lib/cache/redis-cache-manager.ts) *)
(*   CacheManager          (apps/web/src/lib/cache/cache-manager.ts)       *)
(* and the hook useAsyncOperation                                          *)
(*   (apps/web/src/hooks/common/use-async-operation.ts).                   *)
(* Each class is a state machine over its own fields; a specification      *)
(* drives one class and leaves the fields of the others unchanged.         *)
(***************************************************************************)
EXTENDS Integers, Sequences, FiniteSets, TLC

VARIABLES
    now,          \* Date.now(), in milliseconds
    env,          \* process.env.REDIS_URL is set, and the server behind it answers
    config,       \* EnhancedCacheManager.config
    memoryCache,  \* EnhancedCacheManager.memoryCache: a Map, kept in insertion order
    stats,        \* EnhancedCacheManager.stats
    backendType,  \* EnhancedCacheManager.backendType
    redisCache,   \* EnhancedCacheManager.redisCache (NULL or "client")
    cleanupTimer, \* EnhancedCacheManager.cleanupTimer (NULL or "armed")
    lastOp,       \* what the last step was: a facade call with its result, a tick or a sweep
    evicted,      \* the entries the capacity pass of the last step deleted
    redis,        \* RedisCacheManager.redis (NULL or "client")
    emitter,      \* the ioredis client carrying the event handlers: "none", "open" or "closed"
    isConnected,  \* RedisCacheManager.isConnected
    redisStats,   \* RedisCacheManager.stats
    reconnectAttempts, \* RedisCacheManager.reconnectAttempts
    reconnectTimer,    \* RedisCacheManager.reconnectTimer and the timeout behind it
    attemptDelays,     \* the delays that preceded the connect() calls made since the last 'connect'
    gaveUp,       \* scheduleReconnect has refused to schedule: the attempts are used up
    server,       \* the payload the Redis server holds for each key
    call,         \* the RedisCacheManager call awaiting its ioredis command
    remoteOp,     \* the last RedisCacheManager call that completed, with its outcome
    pending,      \* the EnhancedCacheManager call awaiting the remote tier
    cmCache,      \* CacheManager.memoryCache: a Map, kept in insertion order
    cmStats,      \* CacheManager.stats
    cmSets,       \* CacheManager: each caller's set() and the eviction pass it runs
    options,      \* useAsyncOperation: maxRetries and enableCancel of its options
    hookState,    \* useAsyncOperation: the state held by useState
    controllers,  \* the AbortControllers created so far: for each, whether it is aborted
    abortControllerRef, \* abortControllerRef.current: an index into controllers, 0 for null
    retryCountRef,      \* retryCountRef.current
    runs,         \* the executions started so far, in the order of their start
    delayed,      \* the arguments of the retry calls waiting for retryDelay
    retried,      \* how often retry has invoked the operation since the last execute of the caller
    hookLast      \* the last call of the hook that returned or threw at once

facadeVars == <<env, config, memoryCache, stats, backendType, redisCache,
                cleanupTimer, lastOp, evicted, pending>>

connVars == <<redis, emitter, isConnected, reconnectAttempts, reconnectTimer,
              attemptDelays, gaveUp>>

callVars == <<server, call, remoteOp>>

redisVars == <<connVars, redisStats, callVars>>

cmVars == <<cmCache, cmStats, cmSets>>

hookVars == <<options, hookState, controllers, abortControllerRef, retryCountRef,
              runs, delayed, retried, hookLast>>

vars == <<now, facadeVars, redisVars, cmVars, hookVars>>

----------------------------------------------------------------------------
(* Bounds of the model *)

MaxTicks == 2
MaxRequests == 2
MaxErrors == 6
MaxCallErrors == 2
MaxBatchRequests == 6
MaxEvictions == 3
MaxRuns == 3

(* Program constants *)

MsPerSecond == 1000
DefaultTtl == 300
MemoryLimit == 1000
EvictDivisor == 10
maxReconnectAttempts == 5
baseDelayMs == 1000

NULL == "null"
\* the inputs of the facade's operations
Keys == {1, 2}
Values == {"v1", "v2"}
Ttls == {1, 2}
\* the clock advances one second at a time
TickMs == MsPerSecond

----------------------------------------------------------------------------
(* The JavaScript Map behind memoryCache: a sequence of entries in         *)
(* insertion order, at most one per key.                                   *)

\* the position of k's entry, 0 when the map has none
MapIndex(cache, k) ==
    LET at == {i \in 1..Len(cache) : cache[i].key = k}
    IN  IF at = {} THEN 0 ELSE CHOOSE i \in at : TRUE

MapHas(cache, k) == MapIndex(cache, k) # 0

MapSet_KeepsExisting(cache, k, item) ==
    IF MapIndex(cache, k) # 0 THEN cache ELSE Append(cache, item)

\* Map.set: an existing key keeps its position, a new key goes last
MapSet(cache, k, item) ==
    IF MapHas(cache, k)
    THEN [cache EXCEPT ![MapIndex(cache, k)] = item]
    ELSE Append(cache, item)

MapDelete(cache, k) == SelectSeq(cache, LAMBDA e : e.key # k)

MapKeys(cache) == {cache[i].key : i \in 1..Len(cache)}

CacheItem(k, data, ttl) ==
    [key |-> k, data |-> data, timestamp |-> now, ttl |-> ttl,
     accessCount |-> 0, lastAccessed |-> now]

----------------------------------------------------------------------------
(* EnhancedCacheManager: private helpers *)

isExpired(item) == now - item.timestamp > item.ttl * MsPerSecond

updateAccessStats(item) ==
    [item EXCEPT !.accessCount = @ + 1, !.lastAccessed = now]

\* Array.prototype.sort by lastAccessed; the sort is stable, so entries with
\* the same lastAccessed stay in insertion order
RECURSIVE SortByLastAccessed(_)
SortByLastAccessed(entries) ==
    IF entries = <<>> THEN <<>>
    ELSE LET m == CHOOSE t \in {entries[i].lastAccessed : i \in 1..Len(entries)} :
                    \A j \in 1..Len(entries) : t <= entries[j].lastAccessed
         IN  SelectSeq(entries, LAMBDA e : e.lastAccessed = m)
             \o SortByLastAccessed(SelectSeq(entries, LAMBDA e : e.lastAccessed # m))

\* entries.slice(0, Math.floor(entries.length * 0.1))
toDelete(cache) ==
    LET entries == SortByLastAccessed(cache)
    IN  SubSeq(entries, 1, Len(entries) \div EvictDivisor)

checkMemoryLimit_OffByOne(cache) ==
    IF Len(cache) > MemoryLimit + 1
    THEN LET gone == MapKeys(toDelete(cache))
         IN  SelectSeq(cache, LAMBDA e : e.key \notin gone)
    ELSE cache

checkMemoryLimit(cache) ==
    IF Len(cache) > MemoryLimit
    THEN LET gone == MapKeys(toDelete(cache))
         IN  SelectSeq(cache, LAMBDA e : e.key \notin gone)
    ELSE cache

evictedBy(cache) ==
    IF Len(cache) > MemoryLimit THEN toDelete(cache) ELSE <<>>

ZeroStats ==
    [requests |-> 0, hits |-> 0, misses |-> 0,
     hitRate |-> [num |-> 0, den |-> 1],
     backendStatus |-> "connected", backendHitRate |-> 0,
     memorySize |-> 0, memoryHitRate |-> 0]

RemoteActive == backendType = "redis" /\ redisCache # NULL

Returned(op, k, v, r) == [op |-> op, key |-> k, val |-> v, ret |-> r, threw |-> FALSE]

----------------------------------------------------------------------------
(* EnhancedCacheManager: construction *)

\* the configurations getInstance may be handed, and the one the module
\* builds its instance with when it is loaded (lines 555-561)
Configs == [preferredBackend : {"auto", "memory", "redis"}]

DefaultConfig == [preferredBackend |-> "auto"]

enableMemoryCache == TRUE

\* whether REDIS_URL is set, and whether a server answers there at startup
Envs == [REDIS_URL : BOOLEAN, reachable : BOOLEAN]

NoRedisEnv == [REDIS_URL |-> FALSE, reachable |-> FALSE]

\* with 'auto' the environment is not looked at: the Redis branch is
\* commented out
determineBackend(cfg) ==
    IF cfg.preferredBackend # "auto" THEN cfg.preferredBackend ELSE "memory"

initializeMemoryOnly_KeepsDisabled == [backendType |-> "memory", status |-> "disabled"]

\* the constructor leaves the status 'disabled'; initializeMemoryOnly sets it
initializeMemoryOnly == [backendType |-> "memory", status |-> "connected"]

\* both branches of the switch initialize the memory tier only
initializeBackend(cfg) ==
    CASE determineBackend(cfg) = "redis" -> initializeMemoryOnly
      [] OTHER -> initializeMemoryOnly

\* others counts the timeouts still to fire that reconnectTimer no longer
\* refers to
NoTimer == [handle |-> FALSE, pending |-> FALSE, delay |-> 0, stale |-> FALSE, others |-> 0]

ZeroRedisStats ==
    [requests |-> 0, hits |-> 0, misses |-> 0, errors |-> 0,
     hitRate |-> [num |-> 0, den |-> 1]]

NoCall == [op |-> "none", key |-> NULL, data |-> NULL, errorsBefore |-> 0]

\* how a RedisCacheManager call ended: "done", "caught" (its try block
\* threw), "unconnected" (a client, but no connection) or "noclient"
Completed(op, k, r, outcome, threw, before, after) ==
    [op |-> op, key |-> k, ret |-> r, outcome |-> outcome, threw |-> threw,
     errorsBefore |-> before, errorsAfter |-> after]

\* the fields the constructor of RedisCacheManager sets, and an empty server
RedisFresh ==
    /\ isConnected = FALSE
    /\ redisStats = ZeroRedisStats
    /\ reconnectAttempts = 0
    /\ reconnectTimer = NoTimer
    /\ attemptDelays = <<>>
    /\ gaveUp = FALSE
    /\ server = [k \in Keys |-> [kind |-> "absent", v |-> NULL]]
    /\ call = NoCall
    /\ remoteOp = Completed("none", NULL, NULL, "done", FALSE, 0, 0)

\* RedisCacheManager as this build constructs it: initializeRedis returns at
\* its first statement, so no client is ever created
RedisDisabled ==
    /\ redis = NULL
    /\ emitter = "none"
    /\ RedisFresh

NoPending == [op |-> "none", key |-> NULL, val |-> NULL]

\* new EnhancedCacheManager(cfg) in the environment e
Constructed(cfg, e) ==
    /\ env = e
    /\ config = cfg
    /\ memoryCache = <<>>
    /\ stats = [ZeroStats EXCEPT !.backendStatus = initializeBackend(cfg).status]
    /\ backendType = initializeBackend(cfg).backendType
    /\ redisCache = NULL
    /\ cleanupTimer = "armed"
    /\ lastOp = Returned("new", NULL, NULL, NULL)
    /\ evicted = <<>>
    /\ pending = NoPending

FacadeInit == Constructed(DefaultConfig, NoRedisEnv)

\* the callers of CacheManager.set that may be awaiting at the same time
Callers == {1, 2}

\* a caller with no eviction pass: key and data are the arguments of its
\* set, items is the pass's sorted snapshot of the keys, i the position of
\* the delete it awaits, gone the entries it deleted
NoPass == [pc |-> "idle", key |-> NULL, data |-> NULL, items |-> <<>>, evictCount |-> 0,
           i |-> 0, gone |-> <<>>]

\* CacheManager: no instance has been asked for
CMIdle ==
    /\ cmCache = <<>>
    /\ cmStats = [requests |-> 0, hits |-> 0, misses |-> 0, evictionCount |-> 0]
    /\ cmSets = [c \in Callers |-> NoPass]

\* useAsyncOperation as its first render leaves it, with the default options
DefaultOptions == [maxRetries |-> 0, enableCancel |-> TRUE]

NoHookCall == [op |-> "none", threw |-> "nothing"]

Mounted(opts) ==
    /\ options = opts
    /\ hookState = [data |-> NULL, loading |-> FALSE, error |-> NULL]
    /\ controllers = <<>>
    /\ abortControllerRef = 0
    /\ retryCountRef = 0
    /\ runs = <<>>
    /\ delayed = <<>>
    /\ retried = 0
    /\ hookLast = NoHookCall

HookIdle == Mounted(DefaultOptions)

Init ==
    /\ now = 0
    /\ FacadeInit
    /\ RedisDisabled
    /\ CMIdle
    /\ HookIdle

----------------------------------------------------------------------------
(* RedisCacheManager: connection events and reconnection *)

\* RedisCacheManager once the connection code of initializeRedis (lines
\* 112-126) has run: a lazily connecting client with the handlers of
\* setupEventHandlers attached
RedisEnabled ==
    /\ redis = "client"
    /\ emitter = "open"
    /\ RedisFresh

InitRedis ==
    /\ now = 0
    /\ FacadeInit
    /\ RedisDisabled \/ RedisEnabled
    /\ CMIdle
    /\ HookIdle

RECURSIVE Pow2(_)
Pow2(n) == IF n = 0 THEN 1 ELSE 2 * Pow2(n - 1)

\* the timer scheduleReconnect leaves behind; stale marks a timeout armed
\* before the latest 'connect'
scheduleReconnect_Timer_LeavesOld(attempts, timer) ==
    IF attempts >= maxReconnectAttempts THEN timer
    ELSE [handle |-> TRUE, pending |-> TRUE,
          delay |-> Pow2(attempts) * baseDelayMs, stale |-> FALSE,
          others |-> timer.others + IF timer.pending THEN 1 ELSE 0]

scheduleReconnect_Timer(attempts, timer) ==
    IF attempts >= maxReconnectAttempts THEN timer
    ELSE [handle |-> TRUE, pending |-> TRUE,
          delay |-> Pow2(attempts) * baseDelayMs, stale |-> FALSE,
          others |-> timer.others]

scheduleReconnect ==
    /\ reconnectTimer' = scheduleReconnect_Timer(reconnectAttempts, reconnectTimer)
    /\ gaveUp' = (gaveUp \/ reconnectAttempts >= maxReconnectAttempts)

OnConnect ==
    /\ emitter = "open"
    /\ isConnected' = TRUE
    /\ reconnectAttempts' = 0
    /\ attemptDelays' = <<>>
    /\ reconnectTimer' = [reconnectTimer EXCEPT !.stale = reconnectTimer.pending]
    /\ UNCHANGED <<now, facadeVars, cmVars, hookVars, redis, emitter, redisStats, gaveUp, callVars>>

OnReady ==
    /\ emitter = "open"
    /\ isConnected' = TRUE
    /\ UNCHANGED <<now, facadeVars, cmVars, hookVars, redis, emitter, redisStats, reconnectAttempts,
                   reconnectTimer, attemptDelays, gaveUp, callVars>>

OnError ==
    /\ emitter # "none"
    /\ redisStats.errors < MaxErrors
    /\ isConnected' = FALSE
    /\ redisStats' = [redisStats EXCEPT !.errors = @ + 1]
    /\ scheduleReconnect
    /\ UNCHANGED <<now, facadeVars, cmVars, hookVars, redis, emitter, reconnectAttempts, attemptDelays,
                   callVars>>

OnClose ==
    /\ emitter # "none"
    /\ isConnected' = FALSE
    /\ UNCHANGED <<now, facadeVars, cmVars, hookVars, redis, emitter, redisStats, reconnectAttempts,
                   reconnectTimer, attemptDelays, gaveUp, callVars>>

\* the setTimeout callback of scheduleReconnect
ReconnectTimerFires ==
    /\ reconnectTimer.pending
    /\ reconnectAttempts' = reconnectAttempts + 1
    /\ reconnectTimer' = [reconnectTimer EXCEPT !.pending = FALSE]
    /\ attemptDelays' = IF redis # NULL /\ ~reconnectTimer.stale
                        THEN Append(attemptDelays, reconnectTimer.delay)
                        ELSE attemptDelays
    /\ UNCHANGED <<now, facadeVars, cmVars, hookVars, redis, emitter, isConnected, redisStats, gaveUp,
                   callVars>>

destroyRedis_KeepsTimer ==
    /\ reconnectTimer' = reconnectTimer
    /\ redis' = NULL
    /\ emitter' = IF redis # NULL THEN "closed" ELSE emitter
    /\ isConnected' = FALSE
    /\ UNCHANGED <<redisStats, reconnectAttempts, attemptDelays, gaveUp, callVars>>

\* the body of RedisCacheManager.destroy: disconnect() leaves the handlers
\* on the client
destroyRedis ==
    /\ reconnectTimer' = [NoTimer EXCEPT !.others = reconnectTimer.others]
    /\ redis' = NULL
    /\ emitter' = IF redis # NULL THEN "closed" ELSE emitter
    /\ isConnected' = FALSE
    /\ UNCHANGED <<redisStats, reconnectAttempts, attemptDelays, gaveUp, callVars>>

RedisDestroy ==
    /\ destroyRedis
    /\ UNCHANGED <<now, facadeVars, cmVars, hookVars>>

NextReconnect ==
    \/ OnConnect
    \/ OnReady
    \/ OnError
    \/ OnClose
    \/ ReconnectTimerFires
    \/ RedisDestroy

SpecReconnect == InitRedis /\ [][NextReconnect]_vars

----------------------------------------------------------------------------
(* RedisCacheManager: operations.  Each call runs up to its await of the   *)
(* ioredis command, and resumes when the command resolves or rejects; at   *)
(* most one call is in flight.  The running average of the response time   *)
(* is not modelled.                                                        *)

\* JSON.stringify and JSON.parse, over payloads as the server stores them
Absent == [kind |-> "absent", v |-> NULL]
Garbage == [kind |-> "garbage", v |-> NULL]
CanStringify(v) == v # "cyclic"
JSONstringify(v) == [kind |-> "json", v |-> v]
CanParse(p) == p.kind = "json"
JSONparse(p) == p.v

caught_Rethrows(raised) == [threw |-> raised, errors |-> IF raised THEN 1 ELSE 0]

\* try { ... } catch (error) { this.stats.errors++; return <absent> }
caught(raised) == [threw |-> FALSE, errors |-> IF raised THEN 1 ELSE 0]

\* if (!this.redis || !this.isConnected) return ...
NotReady_IgnoresConnection == redis = NULL

NotReady == redis = NULL \/ ~isConnected

CanCall == call.op = "none" /\ redisStats.errors < MaxCallErrors

updateHitRate(s) ==
    [s EXCEPT !.hitRate = IF s.requests > 0 THEN [num |-> s.hits, den |-> s.requests]
                          ELSE [num |-> 0, den |-> 1]]

\* the call returns at once, without a command
ReturnsEarly(op, k, r) ==
    /\ remoteOp' = Completed(op, k, r, IF redis = NULL THEN "noclient" ELSE "unconnected",
                             FALSE, redisStats.errors, redisStats.errors)
    /\ UNCHANGED <<redisStats, call, server>>

\* the call issues its command and awaits it
Awaits(op, k, v) ==
    /\ call' = [op |-> op, key |-> k, data |-> v, errorsBefore |-> redisStats.errors]
    /\ UNCHANGED <<remoteOp, server>>

\* the call resumes and returns r; raised tells whether its try block threw
Resumes(r, raised, st) ==
    LET c == caught(raised)
        after == [st EXCEPT !.errors = @ + c.errors]
    IN  /\ redisStats' = after
        /\ remoteOp' = Completed(call.op, call.key, r,
                                 IF raised THEN "caught" ELSE "done", c.threw,
                                 call.errorsBefore, after.errors)
        /\ call' = NoCall

\* get, up to its await or its early return
RedisGetBegins(k) ==
    IF NotReady THEN ReturnsEarly("get", k, NULL)
    ELSE /\ redisStats' = [redisStats EXCEPT !.requests = @ + 1]
         /\ Awaits("get", k, NULL)

RedisGet(k) ==
    /\ CanCall
    /\ redisStats.requests < MaxRequests
    /\ RedisGetBegins(k)
    /\ UNCHANGED <<now, facadeVars, cmVars, hookVars, connVars>>

RedisGetReturns(rejected) ==
    /\ call.op = "get"
    /\ LET data == server[call.key]
       IN  IF rejected THEN Resumes(NULL, TRUE, redisStats)
           ELSE IF data = Absent
           THEN Resumes(NULL, FALSE,
                        updateHitRate([redisStats EXCEPT !.misses = @ + 1]))
           ELSE Resumes(IF CanParse(data) THEN JSONparse(data) ELSE NULL,
                        ~CanParse(data),
                        updateHitRate([redisStats EXCEPT !.hits = @ + 1]))
    /\ UNCHANGED <<now, facadeVars, cmVars, hookVars, connVars, server>>

\* set, up to its await or its return
RedisSetBegins(k, v) ==
    IF NotReady THEN ReturnsEarly("set", k, "void")
    ELSE IF ~CanStringify(v)
    THEN LET c == caught(TRUE)
         IN  /\ redisStats' = [redisStats EXCEPT !.errors = @ + c.errors]
             /\ remoteOp' = Completed("set", k, "void", "caught", c.threw,
                                      redisStats.errors, redisStats'.errors)
             /\ UNCHANGED <<call, server>>
    ELSE Awaits("set", k, v) /\ UNCHANGED redisStats

RedisSet(k, v) ==
    /\ CanCall
    /\ RedisSetBegins(k, v)
    /\ UNCHANGED <<now, facadeVars, cmVars, hookVars, connVars>>

RedisSetReturns(rejected) ==
    /\ call.op = "set"
    /\ Resumes("void", rejected, redisStats)
    /\ server' = IF rejected THEN server
                 ELSE [server EXCEPT ![call.key] = JSONstringify(call.data)]
    /\ UNCHANGED <<now, facadeVars, cmVars, hookVars, connVars>>

\* delete, up to its await or its early return
RedisDeleteBegins_NeverIssues(k) ==
    ReturnsEarly("delete", k, "void")

RedisDeleteBegins(k) ==
    IF NotReady THEN ReturnsEarly("delete", k, "void")
    ELSE Awaits("delete", k, NULL) /\ UNCHANGED redisStats

RedisDelete(k) ==
    /\ CanCall
    /\ RedisDeleteBegins(k)
    /\ UNCHANGED <<now, facadeVars, cmVars, hookVars, connVars>>

RedisDeleteReturns(rejected) ==
    /\ call.op = "delete"
    /\ Resumes("void", rejected, redisStats)
    /\ server' = IF rejected THEN server ELSE [server EXCEPT ![call.key] = Absent]
    /\ UNCHANGED <<now, facadeVars, cmVars, hookVars, connVars>>

RedisExists(k) ==
    /\ CanCall
    /\ IF NotReady THEN ReturnsEarly("exists", k, FALSE)
       ELSE Awaits("exists", k, NULL) /\ UNCHANGED redisStats
    /\ UNCHANGED <<now, facadeVars, cmVars, hookVars, connVars>>

RedisExistsReturns(rejected) ==
    /\ call.op = "exists"
    /\ Resumes(~rejected /\ server[call.key] # Absent, rejected, redisStats)
    /\ UNCHANGED <<now, facadeVars, cmVars, hookVars, connVars, server>>

\* results.map(result => result ? JSON.parse(result) : null)
mgetResults(keys) ==
    [i \in 1..Len(keys) |->
        IF CanParse(server[keys[i]]) THEN JSONparse(server[keys[i]]) ELSE NULL]

RedisMget(keys) ==
    /\ CanCall
    /\ IF NotReady THEN ReturnsEarly("mget", keys, [i \in 1..Len(keys) |-> NULL])
       ELSE Awaits("mget", keys, NULL) /\ UNCHANGED redisStats
    /\ UNCHANGED <<now, facadeVars, cmVars, hookVars, connVars>>

RedisMgetReturns(rejected) ==
    /\ call.op = "mget"
    /\ LET keys == call.key
           raised == rejected \/ \E i \in 1..Len(keys) : server[keys[i]] = Garbage
       IN  Resumes(IF raised THEN [i \in 1..Len(keys) |-> NULL] ELSE mgetResults(keys),
                   raised, redisStats)
    /\ UNCHANGED <<now, facadeVars, cmVars, hookVars, connVars, server>>

RECURSIVE msetOnServer(_, _)
msetOnServer(srv, items) ==
    IF items = <<>> THEN srv
    ELSE msetOnServer([srv EXCEPT ![Head(items).key] = JSONstringify(Head(items).data)],
                      Tail(items))

RedisMset(items) ==
    /\ CanCall
    /\ IF NotReady THEN ReturnsEarly("mset", NULL, "void")
       ELSE IF \E i \in 1..Len(items) : ~CanStringify(items[i].data)
       THEN LET c == caught(TRUE)
            IN  /\ redisStats' = [redisStats EXCEPT !.errors = @ + c.errors]
                /\ remoteOp' = Completed("mset", NULL, "void", "caught", c.threw,
                                         redisStats.errors, redisStats'.errors)
                /\ UNCHANGED <<call, server>>
       ELSE Awaits("mset", NULL, items) /\ UNCHANGED redisStats
    /\ UNCHANGED <<now, facadeVars, cmVars, hookVars, connVars>>

RedisMsetReturns(rejected) ==
    /\ call.op = "mset"
    /\ Resumes("void", rejected, redisStats)
    /\ server' = IF rejected THEN server ELSE msetOnServer(server, call.data)
    /\ UNCHANGED <<now, facadeVars, cmVars, hookVars, connVars>>

\* clear, up to its await or its early return
RedisClearBegins ==
    IF NotReady THEN ReturnsEarly("clear", NULL, "void")
    ELSE Awaits("clear", NULL, NULL) /\ UNCHANGED redisStats

RedisClear ==
    /\ CanCall
    /\ RedisClearBegins
    /\ UNCHANGED <<now, facadeVars, cmVars, hookVars, connVars>>

RedisClearReturns(rejected) ==
    /\ call.op = "clear"
    /\ Resumes("void", rejected, redisStats)
    /\ server' = IF rejected THEN server ELSE [k \in Keys |-> Absent]
    /\ UNCHANGED <<now, facadeVars, cmVars, hookVars, connVars>>

\* the server is shared: another process stores a payload that is not JSON
OtherWriter(k) ==
    /\ server[k] # Garbage
    /\ server' = [server EXCEPT ![k] = Garbage]
    /\ UNCHANGED <<now, facadeVars, cmVars, hookVars, connVars, redisStats, call, remoteOp>>

RemoteMsetInputs ==
    {<<[key |-> 1, data |-> "v1", ttl |-> <<>>], [key |-> 2, data |-> "v1", ttl |-> <<1>>]>>,
     <<[key |-> 1, data |-> "v1", ttl |-> <<>>], [key |-> 2, data |-> "cyclic", ttl |-> <<>>]>>}

NextRedis ==
    \/ OnConnect
    \/ OnClose
    \/ \E k \in Keys : RedisGet(k)
    \/ \E r \in BOOLEAN : RedisGetReturns(r)
    \/ \E k \in Keys, v \in {"v1", "cyclic"} : RedisSet(k, v)
    \/ \E r \in BOOLEAN : RedisSetReturns(r)
    \/ \E k \in Keys : RedisDelete(k)
    \/ \E r \in BOOLEAN : RedisDeleteReturns(r)
    \/ \E k \in Keys : RedisExists(k)
    \/ \E r \in BOOLEAN : RedisExistsReturns(r)
    \/ RedisMget(<<1, 2>>)
    \/ \E r \in BOOLEAN : RedisMgetReturns(r)
    \/ \E items \in RemoteMsetInputs : RedisMset(items)
    \/ \E r \in BOOLEAN : RedisMsetReturns(r)
    \/ RedisClear
    \/ \E r \in BOOLEAN : RedisClearReturns(r)
    \/ \E k \in Keys : OtherWriter(k)

SpecRedis == InitRedis /\ [][NextRedis]_vars

\* batches read from a server that answers every command: what goes wrong
\* in a batch is the decoding of a payload
NextRemoteBatch ==
    \/ OnConnect
    \/ \E k \in Keys : RedisSet(k, "v1")
    \/ RedisSetReturns(FALSE)
    \/ \E k \in Keys : OtherWriter(k)
    \/ \E keys \in {<<1, 2>>, <<2, 1, 2>>} : RedisMget(keys)
    \/ RedisMgetReturns(FALSE)

SpecRemoteBatch == InitRedis /\ [][NextRemoteBatch]_vars

----------------------------------------------------------------------------
(* EnhancedCacheManager: operations.  With redisCache null no await is     *)
(* reached inside a handler, so each call runs to completion in one step.  *)
(* With a remote tier, get, set and delete run up to their await of the    *)
(* RedisCacheManager call and resume once that call has returned; at most  *)
(* one of them is pending.  exists, mset, clear and destroy are modelled   *)
(* without a remote tier.  mget is a loop of `await this.get(key)`: every   *)
(* interleaving of an mget with other calls is an interleaving of its gets. *)

AwaitsRemote(op, k, v) ==
    /\ pending.op = "none"
    /\ CanCall
    /\ pending' = [op |-> op, key |-> k, val |-> v]
    /\ lastOp' = Returned("await", k, v, NULL)

\* try { await this.redisCache... } catch (error) { this.stats.backend.status = 'error' }
backendFailed(raised) ==
    [threw |-> FALSE, status |-> IF raised THEN "error" ELSE stats.backendStatus]

Get(k) ==
    /\ stats.requests < MaxRequests
    /\ LET i == MapIndex(memoryCache, k)
           hit == enableMemoryCache /\ i # 0 /\ ~isExpired(memoryCache[i])
       IN  IF hit
           THEN /\ memoryCache' = [memoryCache EXCEPT ![i] = updateAccessStats(@)]
                /\ stats' = [stats EXCEPT !.requests = @ + 1, !.hits = @ + 1]
                /\ lastOp' = Returned("get", k, NULL, memoryCache[i].data)
                /\ UNCHANGED <<pending, redisVars>>
           ELSE IF RemoteActive
           THEN /\ AwaitsRemote("get", k, NULL)
                /\ stats' = [stats EXCEPT !.requests = @ + 1]
                /\ RedisGetBegins(k)
                /\ UNCHANGED <<memoryCache, connVars>>
           ELSE /\ memoryCache' = memoryCache
                /\ stats' = [stats EXCEPT !.requests = @ + 1, !.misses = @ + 1]
                /\ lastOp' = Returned("get", k, NULL, NULL)
                /\ UNCHANGED <<pending, redisVars>>
    /\ evicted' = <<>>
    /\ UNCHANGED <<now, env, config, backendType, redisCache, cleanupTimer, cmVars, hookVars>>

\* get, from the return of redisCache.get on
GetResumes_CountsPerTier ==
    /\ pending.op = "get"
    /\ call.op = "none"
    /\ LET c == backendFailed(remoteOp.threw)
           result == remoteOp.ret
           k == pending.key
       IN  IF ~remoteOp.threw /\ result # NULL
           THEN /\ memoryCache' =
                      IF enableMemoryCache
                      THEN MapSet(memoryCache, k,
                                  [key |-> k, data |-> result, timestamp |-> now,
                                   ttl |-> DefaultTtl, accessCount |-> 1,
                                   lastAccessed |-> now])
                      ELSE memoryCache
                /\ stats' = [stats EXCEPT !.hits = @ + 1]
                /\ lastOp' = Returned("get", k, NULL, result)
           ELSE /\ memoryCache' = memoryCache
                /\ stats' = [stats EXCEPT !.misses = @ + 2, !.backendStatus = c.status]
                /\ lastOp' = [Returned("get", k, NULL, NULL) EXCEPT !.threw = c.threw]
    /\ pending' = NoPending
    /\ evicted' = <<>>
    /\ UNCHANGED <<now, env, config, backendType, redisCache, cleanupTimer, redisVars, cmVars, hookVars>>

GetResumes ==
    /\ pending.op = "get"
    /\ call.op = "none"
    /\ LET c == backendFailed(remoteOp.threw)
           result == remoteOp.ret
           k == pending.key
       IN  IF ~remoteOp.threw /\ result # NULL
           THEN /\ memoryCache' =
                      IF enableMemoryCache
                      THEN MapSet(memoryCache, k,
                                  [key |-> k, data |-> result, timestamp |-> now,
                                   ttl |-> DefaultTtl, accessCount |-> 1,
                                   lastAccessed |-> now])
                      ELSE memoryCache
                /\ stats' = [stats EXCEPT !.hits = @ + 1]
                /\ lastOp' = Returned("get", k, NULL, result)
           ELSE /\ memoryCache' = memoryCache
                /\ stats' = [stats EXCEPT !.misses = @ + 1, !.backendStatus = c.status]
                /\ lastOp' = [Returned("get", k, NULL, NULL) EXCEPT !.threw = c.threw]
    /\ pending' = NoPending
    /\ evicted' = <<>>
    /\ UNCHANGED <<now, env, config, backendType, redisCache, cleanupTimer, redisVars, cmVars, hookVars>>

\* the body of set, as a function of the map
setInto(cache, k, v, ttl) ==
    checkMemoryLimit(IF enableMemoryCache THEN MapSet(cache, k, CacheItem(k, v, ttl))
                     ELSE cache)

Set(k, v, ttl) ==
    /\ LET written == IF enableMemoryCache
                      THEN MapSet(memoryCache, k, CacheItem(k, v, ttl))
                      ELSE memoryCache
       IN  IF RemoteActive
           THEN /\ AwaitsRemote("set", k, v)
                /\ memoryCache' = written
                /\ evicted' = <<>>
                /\ RedisSetBegins(k, v)
                /\ UNCHANGED connVars
           ELSE /\ memoryCache' = setInto(memoryCache, k, v, ttl)
                /\ evicted' = evictedBy(written)
                /\ lastOp' = Returned("set", k, v, NULL)
                /\ UNCHANGED <<pending, redisVars>>
    /\ UNCHANGED <<now, stats, env, config, backendType, redisCache, cleanupTimer, cmVars, hookVars>>

SetResumes_RollsBack ==
    /\ pending.op = "set"
    /\ call.op = "none"
    /\ LET c == backendFailed(remoteOp.threw)
       IN  /\ stats' = [stats EXCEPT !.backendStatus = c.status]
           /\ lastOp' = [Returned("set", pending.key, pending.val, NULL)
                            EXCEPT !.threw = c.threw]
    /\ memoryCache' = IF remoteOp.outcome = "caught" THEN MapDelete(memoryCache, pending.key)
                      ELSE checkMemoryLimit(memoryCache)
    /\ evicted' = evictedBy(memoryCache)
    /\ pending' = NoPending
    /\ UNCHANGED <<now, env, config, backendType, redisCache, cleanupTimer, redisVars, cmVars, hookVars>>

\* set, from the return of redisCache.set on
SetResumes ==
    /\ pending.op = "set"
    /\ call.op = "none"
    /\ LET c == backendFailed(remoteOp.threw)
       IN  /\ stats' = [stats EXCEPT !.backendStatus = c.status]
           /\ lastOp' = [Returned("set", pending.key, pending.val, NULL)
                            EXCEPT !.threw = c.threw]
    /\ memoryCache' = checkMemoryLimit(memoryCache)
    /\ evicted' = evictedBy(memoryCache)
    /\ pending' = NoPending
    /\ UNCHANGED <<now, env, config, backendType, redisCache, cleanupTimer, redisVars, cmVars, hookVars>>

Delete(k) ==
    /\ memoryCache' = IF enableMemoryCache THEN MapDelete(memoryCache, k) ELSE memoryCache
    /\ IF RemoteActive
       THEN /\ AwaitsRemote("delete", k, NULL)
            /\ RedisDeleteBegins(k)
            /\ UNCHANGED connVars
       ELSE /\ lastOp' = Returned("delete", k, NULL, NULL)
            /\ UNCHANGED <<pending, redisVars>>
    /\ evicted' = <<>>
    /\ UNCHANGED <<now, stats, env, config, backendType, redisCache, cleanupTimer, cmVars, hookVars>>

\* delete, from the return of redisCache.delete on
DeleteResumes ==
    /\ pending.op = "delete"
    /\ call.op = "none"
    /\ LET c == backendFailed(remoteOp.threw)
       IN  /\ stats' = [stats EXCEPT !.backendStatus = c.status]
           /\ lastOp' = [Returned("delete", pending.key, NULL, NULL)
                            EXCEPT !.threw = c.threw]
    /\ pending' = NoPending
    /\ evicted' = <<>>
    /\ UNCHANGED <<now, memoryCache, env, config, backendType, redisCache, cleanupTimer, redisVars, cmVars, hookVars>>

Exists(k) ==
    /\ LET i == MapIndex(memoryCache, k)
           found == enableMemoryCache /\ i # 0 /\ ~isExpired(memoryCache[i])
       IN  /\ found \/ ~RemoteActive
           /\ lastOp' = Returned("exists", k, NULL, found)
    /\ evicted' = <<>>
    /\ UNCHANGED <<now, memoryCache, stats, env, config, backendType, redisCache, cleanupTimer, pending, redisVars, cmVars, hookVars>>

\* items.map(item => this.set(item.key, item.data, item.ttl)): the sets run
\* one after the other inside map(); an absent ttl takes the default.  The
\* batch is folded by halves, the first half first; binding each result
\* through a one-element set has it computed before it is used.
RECURSIVE msetInto(_, _)
msetInto(cache, items) ==
    IF items = <<>> THEN cache
    ELSE IF Len(items) = 1
    THEN LET it == items[1]
             ttl == IF it.ttl = <<>> THEN DefaultTtl ELSE it.ttl[1]
         IN  CHOOSE r \in {setInto(c, it.key, it.data, ttl) : c \in {cache}} : TRUE
    ELSE CHOOSE r \in {msetInto(first, SubSeq(items, Len(items) \div 2 + 1, Len(items))) :
                         first \in {msetInto(cache, SubSeq(items, 1, Len(items) \div 2))}} : TRUE

Mset(items) ==
    /\ ~RemoteActive
    /\ memoryCache' = msetInto(memoryCache, items)
    /\ lastOp' = Returned("mset", NULL, items, NULL)
    /\ \E kept \in {MapKeys(memoryCache')} :
          evicted' = SelectSeq(memoryCache \o [i \in 1..Len(items) |->
                                  CacheItem(items[i].key, items[i].data, DefaultTtl)],
                               LAMBDA e : e.key \notin kept)
    /\ UNCHANGED <<now, stats, env, config, backendType, redisCache, cleanupTimer, pending, redisVars, cmVars, hookVars>>

\* get without a remote tier, as a function of the map and the statistics
getFrom(cache, st, k) ==
    LET i == MapIndex(cache, k)
    IN  IF enableMemoryCache /\ i # 0 /\ ~isExpired(cache[i])
        THEN [cache |-> [cache EXCEPT ![i] = updateAccessStats(@)],
              stats |-> [st EXCEPT !.requests = @ + 1, !.hits = @ + 1],
              ret |-> cache[i].data]
        ELSE [cache |-> cache,
              stats |-> [st EXCEPT !.requests = @ + 1, !.misses = @ + 1],
              ret |-> NULL]

RECURSIVE mgetFrom_Prepends(_, _, _, _)
mgetFrom_Prepends(cache, st, keys, results) ==
    IF keys = <<>> THEN [cache |-> cache, stats |-> st, ret |-> results]
    ELSE LET g == getFrom(cache, st, Head(keys))
         IN  mgetFrom_Prepends(g.cache, g.stats, Tail(keys), <<g.ret>> \o results)

\* for (const key of keys) results.push(await this.get(key))
RECURSIVE mgetFrom(_, _, _, _)
mgetFrom(cache, st, keys, results) ==
    IF keys = <<>> THEN [cache |-> cache, stats |-> st, ret |-> results]
    ELSE LET g == getFrom(cache, st, Head(keys))
         IN  mgetFrom(g.cache, g.stats, Tail(keys), Append(results, g.ret))

\* mget with no other call between its gets
Mget(keys) ==
    /\ ~RemoteActive
    /\ stats.requests + Len(keys) <= MaxBatchRequests
    /\ LET m == mgetFrom(memoryCache, stats, keys, <<>>)
       IN  /\ memoryCache' = m.cache
           /\ stats' = m.stats
           /\ lastOp' = Returned("mget", keys, NULL, m.ret)
    /\ evicted' = <<>>
    /\ UNCHANGED <<now, env, config, backendType, redisCache, cleanupTimer, pending, redisVars, cmVars, hookVars>>

Clear_KeepsRequests ==
    /\ memoryCache' = <<>>
    /\ stats' = [stats EXCEPT !.hits = 0, !.misses = 0]
    /\ lastOp' = Returned("clear", NULL, NULL, NULL)
    /\ evicted' = <<>>
    /\ UNCHANGED <<now, env, config, backendType, redisCache, cleanupTimer, pending, redisVars, cmVars, hookVars>>

Clear ==
    /\ memoryCache' = IF enableMemoryCache THEN <<>> ELSE memoryCache
    /\ IF RemoteActive
       THEN /\ AwaitsRemote("clear", NULL, NULL)
            /\ RedisClearBegins
            /\ UNCHANGED <<stats, connVars>>
       ELSE /\ stats' = ZeroStats
            /\ lastOp' = Returned("clear", NULL, NULL, NULL)
            /\ UNCHANGED <<pending, redisVars>>
    /\ evicted' = <<>>
    /\ UNCHANGED <<now, env, config, backendType, redisCache, cleanupTimer, cmVars, hookVars>>

\* clear, from the return of redisCache.clear on: the statistics are replaced
\* whatever the remote tier answered
ClearResumes ==
    /\ pending.op = "clear"
    /\ call.op = "none"
    /\ stats' = ZeroStats
    /\ lastOp' = [Returned("clear", NULL, NULL, NULL)
                     EXCEPT !.threw = backendFailed(remoteOp.threw).threw]
    /\ pending' = NoPending
    /\ evicted' = <<>>
    /\ UNCHANGED <<now, memoryCache, env, config, backendType, redisCache, cleanupTimer, redisVars, cmVars, hookVars>>

hitRateOf_Misses(s) ==
    IF s.requests > 0 THEN [num |-> s.hits, den |-> s.misses]
    ELSE [num |-> 0, den |-> 1]

\* hits / requests, or 0 when requests is 0; kept as a fraction
hitRateOf(s) ==
    IF s.requests > 0 THEN [num |-> s.hits, den |-> s.requests]
    ELSE [num |-> 0, den |-> 1]

GetStats ==
    /\ stats' = [stats EXCEPT !.memorySize = Len(memoryCache),
                              !.hitRate = hitRateOf(stats)]
    /\ lastOp' = Returned("getStats", NULL, NULL, stats')
    /\ evicted' = <<>>
    /\ UNCHANGED <<now, memoryCache, env, config, backendType, redisCache, cleanupTimer, pending, redisVars, cmVars, hookVars>>

GetBackendType ==
    /\ lastOp' = Returned("getBackendType", NULL, NULL, backendType)
    /\ evicted' = <<>>
    /\ UNCHANGED <<now, memoryCache, stats, env, config, backendType, redisCache, cleanupTimer, pending, redisVars, cmVars, hookVars>>

\* the setInterval callback
cleanupExpiredItems_AtTtl ==
    /\ cleanupTimer # NULL
    /\ memoryCache' = SelectSeq(memoryCache,
                         LAMBDA e : ~(now - e.timestamp >= e.ttl * MsPerSecond))
    /\ lastOp' = Returned("sweep", NULL, NULL, Len(memoryCache) - Len(memoryCache'))
    /\ evicted' = <<>>
    /\ UNCHANGED <<now, stats, env, config, backendType, redisCache, cleanupTimer, pending, redisVars, cmVars, hookVars>>

\* one run of the sweep; it returns nothing, and what is recorded as its
\* result is expiredKeys.length
cleanupExpiredItems ==
    /\ cleanupTimer # NULL
    /\ memoryCache' = SelectSeq(memoryCache,
                         LAMBDA e : ~(now - e.timestamp > e.ttl * MsPerSecond))
    /\ lastOp' = Returned("sweep", NULL, NULL, Len(memoryCache) - Len(memoryCache'))
    /\ evicted' = <<>>
    /\ UNCHANGED <<now, stats, env, config, backendType, redisCache, cleanupTimer, pending, redisVars, cmVars, hookVars>>

\* destroy: the RedisCacheManager is destroyed only when redisCache holds one
Destroy ==
    /\ cleanupTimer' = NULL
    /\ memoryCache' = <<>>
    /\ IF redisCache # NULL THEN destroyRedis ELSE UNCHANGED redisVars
    /\ redisCache' = NULL
    /\ lastOp' = Returned("destroy", NULL, NULL, NULL)
    /\ evicted' = <<>>
    /\ UNCHANGED <<now, stats, env, config, backendType, pending, cmVars, hookVars>>

Tick ==
    /\ now + TickMs <= MaxTicks * TickMs
    /\ now' = now + TickMs
    /\ lastOp' = Returned("tick", NULL, NULL, NULL)
    /\ evicted' = <<>>
    /\ UNCHANGED <<memoryCache, stats, env, config, backendType, redisCache, cleanupTimer, pending, redisVars, cmVars, hookVars>>

\* an item's optional ttl is <<>> when absent
MsetInputs ==
    {<<[key |-> 1, data |-> "v1", ttl |-> <<>>], [key |-> 2, data |-> "v2", ttl |-> <<1>>]>>,
     <<[key |-> 2, data |-> "v1", ttl |-> <<1>>], [key |-> 2, data |-> "v2", ttl |-> <<1>>]>>}

\* get, set, delete, clear and getStats over every key, value and ttl
Next ==
    \/ \E k \in Keys : Get(k)
    \/ \E k \in Keys, v \in Values, ttl \in Ttls : Set(k, v, ttl)
    \/ \E k \in Keys : Delete(k)
    \/ Clear
    \/ GetStats
    \/ cleanupExpiredItems
    \/ Tick

Spec == Init /\ [][Next]_vars

\* every operation of the facade
NextFacade ==
    \/ \E k \in Keys : Get(k)
    \/ \E k \in Keys : Set(k, "v1", 1)
    \/ \E k \in Keys : Delete(k)
    \/ \E k \in Keys : Exists(k)
    \/ \E items \in MsetInputs : Mset(items)
    \/ Clear
    \/ GetStats
    \/ GetBackendType
    \/ cleanupExpiredItems
    \/ Destroy
    \/ Tick

SpecFacade == Init /\ [][NextFacade]_vars

\* a batch wider than the map's limit
WideBatch == [i \in 1..(MemoryLimit + 1) |-> [key |-> i, data |-> "v1", ttl |-> <<>>]]

BatchKeys == {<<1, 2, 3>>, <<3, 1>>, <<1, MemoryLimit + 1>>}

\* the small batches are written into every map, the wide one into the map
\* as constructed; the keys read afterwards include one never written
NextBatch ==
    \/ \E items \in MsetInputs : Mset(items)
    \/ lastOp.op = "new" /\ Mset(WideBatch)
    \/ \E keys \in BatchKeys : Mget(keys)
    \/ Delete(1)
    \/ Tick

SpecBatch == Init /\ [][NextBatch]_vars

\* getInstance(cfg) once the module is loaded: the instance exists, so no
\* constructor runs and cfg is dropped; ret is the backend of the instance
\* handed back
GetInstance(cfg) ==
    /\ lastOp' = Returned("getInstance", NULL, cfg.preferredBackend, backendType)
    /\ evicted' = <<>>
    /\ UNCHANGED <<now, env, config, memoryCache, stats, backendType, redisCache, cleanupTimer,
                   pending, redisVars, cmVars, hookVars>>

\* the instance of the module, built in every environment
InitBackend ==
    /\ now = 0
    /\ \E e \in Envs : Constructed(DefaultConfig, e)
    /\ RedisDisabled
    /\ CMIdle
    /\ HookIdle

NextBackend ==
    \/ \E cfg \in Configs : GetInstance(cfg)
    \/ GetBackendType
    \/ GetStats
    \/ \E k \in Keys : Get(k)
    \/ \E k \in Keys : Set(k, "v1", 1)
    \/ \E k \in Keys : Delete(k)
    \/ Tick

SpecBackend == InitBackend /\ [][NextBackend]_vars

\* EnhancedCacheManager over a remote tier: the state initializeRedis (lines
\* 224-237) leaves, with the client of RedisCacheManager created.  This
\* build never calls it; the remote branches of get, set and delete are
\* exercised from here.
InitTiers ==
    /\ now = 0
    /\ env = [REDIS_URL |-> TRUE, reachable |-> TRUE]
    /\ config = DefaultConfig
    /\ memoryCache = <<>>
    /\ stats = ZeroStats
    /\ backendType = "redis"
    /\ redisCache = "client"
    /\ cleanupTimer = "armed"
    /\ lastOp = Returned("new", NULL, NULL, NULL)
    /\ evicted = <<>>
    /\ pending = NoPending
    /\ RedisEnabled
    /\ CMIdle
    /\ HookIdle

\* one key is written, deleted and overwritten by the other process; both
\* are read
NextTiers ==
    \/ \E k \in Keys : Get(k)
    \/ GetResumes
    \/ \E v \in {"v1", "cyclic"} : Set(1, v, 1)
    \/ SetResumes
    \/ Delete(1)
    \/ DeleteResumes
    \/ redisStats.requests < MaxRequests /\ Clear
    \/ ClearResumes
    \/ GetBackendType
    \/ \E r \in BOOLEAN : RedisGetReturns(r)
    \/ \E r \in BOOLEAN : RedisSetReturns(r)
    \/ \E r \in BOOLEAN : RedisDeleteReturns(r)
    \/ \E r \in BOOLEAN : RedisClearReturns(r)
    \/ OnConnect
    \/ OnClose
    \/ OtherWriter(1)

SpecTiers == InitTiers /\ [][NextTiers]_vars

\* shutdown, with and without a remote tier: writes of one key, the events
\* of the client, the two timers and destroy
InitShutdown == Init \/ InitTiers

NextShutdown ==
    \/ Set(1, "v1", 1)
    \/ SetResumes
    \/ \E r \in BOOLEAN : RedisSetReturns(r)
    \/ OnConnect
    \/ OnError
    \/ ReconnectTimerFires
    \/ cleanupExpiredItems
    \/ Destroy

SpecShutdown == InitShutdown /\ [][NextShutdown]_vars

----------------------------------------------------------------------------
(* The memory tier at its capacity: the map already holds MemoryLimit - 1  *)
(* or MemoryLimit entries, written at time 0 with the default ttl; either  *)
(* none of them was read since, or every second one was read at 1000 ms.   *)

Prefilled(n, alternate) ==
    [i \in 1..n |->
        LET read == alternate /\ i % 2 = 1
        IN  [key |-> i, data |-> "v1", timestamp |-> 0, ttl |-> DefaultTtl,
             accessCount |-> IF read THEN 1 ELSE 0,
             lastAccessed |-> IF read THEN MsPerSecond ELSE 0]]

InitEvict ==
    /\ \E n \in {MemoryLimit - 1, MemoryLimit}, alternate \in BOOLEAN :
          /\ memoryCache = Prefilled(n, alternate)
          /\ now = IF alternate THEN MsPerSecond ELSE 0
    /\ env = NoRedisEnv
    /\ config = DefaultConfig
    /\ stats = ZeroStats
    /\ backendType = initializeBackend(config).backendType
    /\ redisCache = NULL
    /\ cleanupTimer = "armed"
    /\ lastOp = Returned("set", 1, "v1", NULL)
    /\ evicted = <<>>
    /\ pending = NoPending
    /\ RedisDisabled
    /\ CMIdle
    /\ HookIdle

\* the keys written at capacity: the last one and a new one; the oldest
\* key is the one read
EvictKeys == {MemoryLimit, MemoryLimit + 1}

NextEvict ==
    \/ Get(1)
    \/ \E k \in EvictKeys : Set(k, "v2", 1)
    \/ Tick

SpecEvict == InitEvict /\ [][NextEvict]_vars

----------------------------------------------------------------------------
(* CacheManager.  initializeRedis leaves redisClient undefined and turns    *)
(* enableRedis off, so get runs in one step and delete reaches no await of  *)
(* its own.  set awaits checkMemoryUsage, and the eviction pass awaits each *)
(* delete: the pass deletes one key, yields, counts the eviction, deletes   *)
(* the next key, and other calls run between two of its steps.             *)

\* key.length * 2 + JSON.stringify(item).length * 2, with every key and item
\* of the model taken to be of the same length
CharsPerEntry == 100

\* key.length + JSON.stringify(item).length: CharsPerEntry for a short value,
\* more than maxMemorySize allows for a long one
BigChars == 6 * CharsPerEntry

Chars(item) == IF item.data = "big" THEN BigChars ELSE CharsPerEntry

RECURSIVE estimateMemoryUsage(_)
estimateMemoryUsage(cache) ==
    IF cache = <<>> THEN 0
    ELSE Chars(Head(cache)) * 2 + estimateMemoryUsage(Tail(cache))

\* config.maxMemorySize, chosen by the caller of getInstance: room for five
\* entries
maxMemorySize == 5 * CharsPerEntry * 2

\* Math.ceil(items.length * 0.2)
evictCount(items) == (Len(items) + 4) \div 5

CMGet(k) ==
    /\ cmStats.requests < MaxRequests
    /\ LET i == MapIndex(cmCache, k)
           hit == i # 0 /\ ~(now - cmCache[i].timestamp > cmCache[i].ttl)
       IN  IF hit
           THEN /\ cmCache' = [cmCache EXCEPT ![i] = updateAccessStats(@)]
                /\ cmStats' = [cmStats EXCEPT !.requests = @ + 1, !.hits = @ + 1]
           ELSE /\ cmCache' = cmCache
                /\ cmStats' = [cmStats EXCEPT !.requests = @ + 1, !.misses = @ + 1]
    /\ UNCHANGED <<now, facadeVars, redisVars, hookVars, cmSets>>

\* set, up to the first await it reaches: past the write, and when the
\* estimate exceeds maxMemorySize past the sort and the first delete of
\* evictLeastRecentlyUsed
CMSet(c, k, v, ttl) ==
    /\ cmSets[c].pc # "evicting"
    /\ LET item == [key |-> k, data |-> v, timestamp |-> now, ttl |-> ttl * MsPerSecond,
                    accessCount |-> 0, lastAccessed |-> now]
           written == MapSet(cmCache, k, item)
           items == SortByLastAccessed(written)
       IN  IF estimateMemoryUsage(written) > maxMemorySize
           THEN /\ cmCache' = MapDelete(written, items[1].key)
                /\ cmSets' = [cmSets EXCEPT ![c] =
                                 [pc |-> "evicting",
                                  key |-> k,
                                  data |-> v,
                                  items |-> [j \in 1..Len(items) |-> items[j].key],
                                  evictCount |-> evictCount(items),
                                  i |-> 1,
                                  gone |-> <<items[1]>>]]
           ELSE /\ cmCache' = written
                /\ cmSets' = [cmSets EXCEPT ![c] = [NoPass EXCEPT !.key = k, !.data = v]]
    /\ UNCHANGED <<now, facadeVars, redisVars, hookVars, cmStats>>

\* the pass resumes after `await this.delete(key)`: evictionCount++, then
\* the next delete or the end of the loop
CMEvictResumes(c) ==
    /\ cmSets[c].pc = "evicting"
    /\ cmStats' = [cmStats EXCEPT !.evictionCount = @ + 1]
    /\ LET s == cmSets[c]
           next == s.i + 1
       IN  IF next <= s.evictCount
           THEN LET k == s.items[next]
                    at == MapIndex(cmCache, k)
                IN  /\ cmCache' = MapDelete(cmCache, k)
                    /\ cmSets' = [cmSets EXCEPT ![c].i = next,
                                     ![c].gone = IF at # 0 THEN Append(@, cmCache[at])
                                                 ELSE @]
           ELSE /\ cmCache' = cmCache
                /\ cmSets' = [cmSets EXCEPT ![c].pc = "done"]
    /\ UNCHANGED <<now, facadeVars, redisVars, hookVars>>

\* five entries written at time 0, none read since
CMPrefilled ==
    [i \in 1..5 |-> [key |-> i, data |-> "v1", timestamp |-> 0,
                     ttl |-> DefaultTtl * MsPerSecond,
                     accessCount |-> 0, lastAccessed |-> 0]]

InitCacheManager ==
    /\ now = 0
    /\ FacadeInit
    /\ RedisDisabled
    /\ cmCache = CMPrefilled
    /\ cmStats = [requests |-> 0, hits |-> 0, misses |-> 0, evictionCount |-> 0]
    /\ cmSets = [c \in Callers |-> NoPass]
    /\ HookIdle

\* reads of a key the pass is about to evict and of one it retains, writes
\* of new keys
NextCacheManager ==
    \/ \E k \in {2, 3} : CMGet(k)
    \/ \E c \in Callers, k \in {6, 7} : CMSet(c, k, "v1", DefaultTtl)
    \/ \E c \in Callers : CMEvictResumes(c)
    \/ Tick

SpecCacheManager == InitCacheManager /\ [][NextCacheManager]_vars

\* values of two sizes written to an empty map and to a full one, under a
\* key the map holds and under a new one
InitCMSizes ==
    /\ now = 0
    /\ FacadeInit
    /\ RedisDisabled
    /\ cmCache \in {<<>>, CMPrefilled}
    /\ cmStats = [requests |-> 0, hits |-> 0, misses |-> 0, evictionCount |-> 0]
    /\ cmSets = [c \in Callers |-> NoPass]
    /\ HookIdle

NextCMSizes ==
    \/ /\ cmStats.evictionCount < MaxEvictions
       /\ \E k \in {1, 6}, v \in {"v1", "big"} : CMSet(1, k, v, DefaultTtl)
    \/ CMEvictResumes(1)
    \/ \E k \in {1, 6} : CMGet(k)
    \/ Tick

SpecCMSizes == InitCMSizes /\ [][NextCMSizes]_vars

----------------------------------------------------------------------------
(* useAsyncOperation (use-async-operation.ts).  The operation called with   *)
(* argument a resolves with a or rejects with the error of a.               *)

Args == {"a", "b"}

Options == [maxRetries : {0, 1}, enableCancel : BOOLEAN]

\* abortControllerRef.current.abort()
abortCurrent ==
    IF abortControllerRef # 0 THEN [controllers EXCEPT ![abortControllerRef] = TRUE]
    ELSE controllers

\* enableCancel && abortControllerRef.current?.signal.aborted
isAborted ==
    options.enableCancel /\ abortControllerRef # 0 /\ controllers[abortControllerRef]

\* execute, up to its await of the operation
executeBegins(a) ==
    /\ LET cancelled == IF options.enableCancel THEN abortCurrent ELSE controllers
           created == IF options.enableCancel THEN Append(cancelled, FALSE) ELSE cancelled
       IN  /\ controllers' = created
           /\ abortControllerRef' = IF options.enableCancel THEN Len(created)
                                    ELSE abortControllerRef
    /\ hookState' = [hookState EXCEPT !.loading = TRUE, !.error = NULL]
    /\ retryCountRef' = 0
    /\ runs' = Append(runs, [arg |-> a, pc |-> "running"])

\* execute, called by the component
Execute(a) ==
    /\ Len(runs) + Len(delayed) < MaxRuns
    /\ executeBegins(a)
    /\ retried' = 0
    /\ hookLast' = [op |-> "execute", threw |-> "nothing"]
    /\ UNCHANGED <<now, facadeVars, redisVars, cmVars, options, delayed>>

\* the operation of execution i settles and execute runs to its end
OperationSettles(i, resolved) ==
    /\ i \in 1..Len(runs)
    /\ runs[i].pc = "running"
    /\ IF isAborted
       THEN /\ hookState' = [hookState EXCEPT !.loading = FALSE]
            /\ runs' = [runs EXCEPT ![i].pc = "cancelled"]
       ELSE IF resolved
       THEN /\ hookState' = [data |-> runs[i].arg, loading |-> FALSE, error |-> NULL]
            /\ runs' = [runs EXCEPT ![i].pc = "resolved"]
       ELSE /\ hookState' = [hookState EXCEPT !.loading = FALSE, !.error = runs[i].arg]
            /\ runs' = [runs EXCEPT ![i].pc = "rejected"]
    /\ UNCHANGED <<now, facadeVars, redisVars, cmVars, options, controllers, abortControllerRef,
                   retryCountRef, delayed, retried, hookLast>>

\* retry, up to its throw or to its await of retryDelay
Retry(a) ==
    /\ IF retryCountRef >= options.maxRetries
       THEN /\ hookLast' = [op |-> "retry", threw |-> "Maximum retry attempts exceeded"]
            /\ UNCHANGED <<retryCountRef, delayed>>
       ELSE /\ Len(runs) + Len(delayed) < MaxRuns
            /\ retryCountRef' = retryCountRef + 1
            /\ delayed' = Append(delayed, a)
            /\ hookLast' = [op |-> "retry", threw |-> "nothing"]
    /\ UNCHANGED <<now, facadeVars, redisVars, cmVars, options, hookState, controllers,
                   abortControllerRef, runs, retried>>

\* retryDelay has passed: retry calls execute
RetryDelayElapses ==
    /\ delayed # <<>>
    /\ executeBegins(Head(delayed))
    /\ delayed' = Tail(delayed)
    /\ retried' = retried + 1
    /\ UNCHANGED <<now, facadeVars, redisVars, cmVars, options, hookLast>>

Cancel ==
    /\ controllers' = abortCurrent
    /\ hookState' = IF abortControllerRef # 0 THEN [hookState EXCEPT !.loading = FALSE]
                    ELSE hookState
    /\ hookLast' = [op |-> "cancel", threw |-> "nothing"]
    /\ UNCHANGED <<now, facadeVars, redisVars, cmVars, options, abortControllerRef,
                   retryCountRef, runs, delayed, retried>>

Reset ==
    /\ controllers' = IF options.enableCancel THEN abortCurrent ELSE controllers
    /\ hookState' = [data |-> NULL, loading |-> FALSE, error |-> NULL]
    /\ retryCountRef' = 0
    /\ hookLast' = [op |-> "reset", threw |-> "nothing"]
    /\ UNCHANGED <<now, facadeVars, redisVars, cmVars, options, abortControllerRef, runs,
                   delayed, retried>>

InitHook ==
    /\ now = 0
    /\ FacadeInit
    /\ RedisDisabled
    /\ CMIdle
    /\ \E opts \in Options : Mounted(opts)

NextHook ==
    \/ \E a \in Args : Execute(a)
    \/ \E i \in 1..MaxRuns, r \in BOOLEAN : OperationSettles(i, r)
    \/ \E a \in Args : Retry(a)
    \/ RetryDelayElapses
    \/ Cancel
    \/ Reset

SpecHook == InitHook /\ [][NextHook]_vars

----------------------------------------------------------------------------
(* Claims *)

EntryOf(k) == memoryCache[MapIndex(memoryCache, k)]

\* C1: set(k, v, ttl) with ttl > 0 followed at once by get(k), with no time
\* elapsed and nothing in between, returns v
C1_SetThenGet ==
    [][(lastOp.op = "set" /\ lastOp'.op = "get" /\ lastOp'.key = lastOp.key)
       => lastOp'.ret = lastOp.val]_vars

\* a get that returned "v2" from an entry written in the same millisecond and
\* read for the first time
C1_Witness ==
    /\ lastOp.op = "get"
    /\ lastOp.ret = "v2"
    /\ MapHas(memoryCache, lastOp.key)
    /\ EntryOf(lastOp.key).accessCount = 1
    /\ EntryOf(lastOp.key).timestamp = now

\* C2: get never returns an entry unless now - timestamp < ttl * 1000
C2_NeverReturnsAtTtl ==
    (lastOp.op = "get" /\ lastOp.ret # NULL)
    => /\ MapHas(memoryCache, lastOp.key)
       /\ now - EntryOf(lastOp.key).timestamp < EntryOf(lastOp.key).ttl * MsPerSecond

\* C3: requests = hits + misses in every state getStats() can observe
C3_RequestsAreHitsPlusMisses ==
    /\ stats.requests = stats.hits + stats.misses
    /\ lastOp.op = "getStats"
       => lastOp.ret.requests = lastOp.ret.hits + lastOp.ret.misses

C3_Witness ==
    /\ lastOp.op = "getStats"
    /\ lastOp.ret.hits >= 1
    /\ lastOp.ret.misses >= 1

\* C4: the hit rate getStats() reports is within [0, 1], and is 0 when
\* requests = 0
C4_HitRateInUnitInterval ==
    lastOp.op = "getStats"
    => LET r == lastOp.ret
       IN  /\ r.hitRate.den > 0
           /\ 0 <= r.hitRate.num
           /\ r.hitRate.num <= r.hitRate.den
           /\ r.requests = 0 => r.hitRate.num = 0

\* getStats() reported a hit rate of 1/2
C4_Witness ==
    /\ lastOp.op = "getStats"
    /\ lastOp.ret.hitRate = [num |-> 1, den |-> 2]

\* C5: a set that pushes the entry count above the limit runs the eviction
\* pass itself: after every set the map holds at most MemoryLimit entries
C5_SetKeepsWithinLimit ==
    /\ Len(memoryCache) <= MemoryLimit
    /\ evicted # <<>> => lastOp.op = "set"

\* a set ran the eviction pass
C5_Witness ==
    /\ lastOp.op = "set"
    /\ evicted # <<>>
    /\ Len(memoryCache) + Len(evicted) = MemoryLimit + 1

\* C6, for EnhancedCacheManager, whose pass runs inside one call of set:
\* every key the pass evicts was accessed no later than every key it retains
C6_EvictsOldestAccessed ==
    \A i \in 1..Len(evicted), j \in 1..Len(memoryCache) :
        evicted[i].lastAccessed <= memoryCache[j].lastAccessed

\* a pass that evicted entries and retained others as old as the evicted
\* ones beside more recent ones
C6_Witness ==
    /\ evicted # <<>>
    /\ \E i \in 1..Len(evicted), j \in 1..Len(memoryCache) :
          evicted[i].lastAccessed = memoryCache[j].lastAccessed
    /\ \E i \in 1..Len(evicted), j \in 1..Len(memoryCache) :
          evicted[i].lastAccessed < memoryCache[j].lastAccessed

\* C6, for CacheManager: every entry a pass has deleted was accessed no
\* later than every key the pass retains
C6_PassEvictsOldest ==
    \A c \in Callers :
        LET s == cmSets[c]
        IN  \A g \in 1..Len(s.gone), j \in (s.evictCount + 1)..Len(s.items) :
                MapHas(cmCache, s.items[j])
                => s.gone[g].lastAccessed
                     <= cmCache[MapIndex(cmCache, s.items[j])].lastAccessed

C11_BackendFollowsPolicy ==
    /\ config.preferredBackend # "auto" => backendType = config.preferredBackend
    /\ config.preferredBackend = "auto" =>
          IF env.REDIS_URL /\ env.reachable
          THEN RemoteActive /\ enableMemoryCache
          ELSE backendType = "memory" /\ redisCache = NULL
    /\ lastOp.op = "getInstance" /\ lastOp.val # "auto" => lastOp.ret = lastOp.val

\* C12: without a remote tier getBackendType() answers "memory", the backend
\* status is 'connected' in the statistics and in every record getStats()
\* returns, and set, get and delete work on the map: a set leaves its value
\* stored, a get returns what is stored or null, a delete leaves no entry.
C12_MemoryOnlyKeepsWorking ==
    /\ backendType = "memory"
    /\ stats.backendStatus = "connected"
    /\ ~lastOp.threw
    /\ lastOp.op = "getBackendType" => lastOp.ret = "memory"
    /\ lastOp.op = "getStats" => lastOp.ret.backendStatus = "connected"
    /\ lastOp.op = "set" =>
          /\ MapHas(memoryCache, lastOp.key)
          /\ EntryOf(lastOp.key).data = lastOp.val
    /\ lastOp.op = "get" /\ lastOp.ret # NULL =>
          /\ MapHas(memoryCache, lastOp.key)
          /\ EntryOf(lastOp.key).data = lastOp.ret
    /\ lastOp.op = "delete" => ~MapHas(memoryCache, lastOp.key)

\* getStats() after a destroy() and a counted get
C12_Witness ==
    /\ lastOp.op = "getStats"
    /\ cleanupTimer = NULL
    /\ lastOp.ret.requests > 0
    /\ lastOp.ret.memorySize > 0

\* C13: an mget that follows an mset of entries with distinct keys returns one
\* result per key asked for, in the order of the keys: the value of the entry
\* for a key the mset wrote, null for a key the map has never held; the
\* entries written without a ttl carry the default ttl.
C13_MgetReturnsWhatMsetStored ==
    [][(/\ lastOp.op = "mset"
        /\ lastOp'.op = "mget"
        /\ Cardinality({lastOp.val[i].key : i \in 1..Len(lastOp.val)}) = Len(lastOp.val))
       => LET items == lastOp.val
              keys == lastOp'.key
              ret == lastOp'.ret
          IN  /\ Len(ret) = Len(keys)
              /\ \A n \in 1..Len(keys) :
                    /\ \A i \in 1..Len(items) :
                          items[i].key = keys[n] => ret[n] = items[i].data
                    /\ ~MapHas(memoryCache, keys[n]) /\ (\A i \in 1..Len(items) : items[i].key # keys[n])
                          => ret[n] = NULL
              /\ \A i \in 1..Len(items) :
                    items[i].ttl = <<>> /\ MapHas(memoryCache, items[i].key)
                       => EntryOf(items[i].key).ttl = DefaultTtl]_vars

\* C13 amended: the same, for an mset none of whose sets evicted an entry
C13_MgetAfterMsetWithinLimit ==
    [][(/\ lastOp.op = "mset"
        /\ lastOp'.op = "mget"
        /\ evicted = <<>>
        /\ Cardinality({lastOp.val[i].key : i \in 1..Len(lastOp.val)}) = Len(lastOp.val))
       => LET items == lastOp.val
              keys == lastOp'.key
              ret == lastOp'.ret
          IN  /\ Len(ret) = Len(keys)
              /\ \A n \in 1..Len(keys) :
                    /\ \A i \in 1..Len(items) :
                          items[i].key = keys[n] => ret[n] = items[i].data
                    /\ ~MapHas(memoryCache, keys[n]) /\ (\A i \in 1..Len(items) : items[i].key # keys[n])
                          => ret[n] = NULL
              /\ \A i \in 1..Len(items) :
                    items[i].ttl = <<>> => /\ MapHas(memoryCache, items[i].key)
                                           /\ EntryOf(items[i].key).ttl = DefaultTtl]_vars

\* mget(1, 2, 3) has returned the two values written and null for key 3
C13_Witness ==
    /\ lastOp.op = "mget"
    /\ lastOp.key = <<1, 2, 3>>
    /\ lastOp.ret = <<"v1", "v2", NULL>>
    /\ EntryOf(1).ttl = DefaultTtl
    /\ EntryOf(1).accessCount = 1

\* the steps in which destroy() runs: the only call that records "destroy",
\* and, after a destroy(), the only step that leaves the clock, the remote
\* counters and the call in flight as they are and the client disconnected
DestroyReturns ==
    /\ lastOp'.op = "destroy"
    /\ lastOp.op = "destroy" =>
          /\ ~isConnected'
          /\ now' = now
          /\ redisStats' = redisStats
          /\ reconnectAttempts' = reconnectAttempts
          /\ call'.op = call.op

C16_GetRemovesExpired ==
    [][(/\ lastOp'.op = "get"
        /\ stats'.requests = stats.requests + 1
        /\ MapIndex(memoryCache, lastOp'.key) # 0
        /\ isExpired(memoryCache[MapIndex(memoryCache, lastOp'.key)]))
       => MapIndex(memoryCache', lastOp'.key) = 0]_vars

\* C19: a sweep removes exactly the entries whose age exceeds their TTL: the
\* others stay, with their access metadata, and the counters are not
\* touched.
C19_SweepRemovesOnlyExpired ==
    [][lastOp'.op = "sweep"
       => /\ \A i \in 1..Len(memoryCache) :
                IF now - memoryCache[i].timestamp > memoryCache[i].ttl * MsPerSecond
                THEN \A j \in 1..Len(memoryCache') :
                        memoryCache'[j].key # memoryCache[i].key
                ELSE \E j \in 1..Len(memoryCache') : memoryCache'[j] = memoryCache[i]
          /\ Len(memoryCache') <= Len(memoryCache)
          /\ stats' = stats]_vars

\* a sweep has removed one entry and kept another, read once, whose age
\* equals its TTL
C19_Witness ==
    /\ lastOp.op = "sweep"
    /\ lastOp.ret = 1
    /\ Len(memoryCache) = 1
    /\ memoryCache[1].accessCount = 1
    /\ now - memoryCache[1].timestamp = memoryCache[1].ttl * MsPerSecond

C23_CountersNeverDecrease ==
    [][/\ stats'.requests >= stats.requests
       /\ stats'.hits >= stats.hits
       /\ stats'.misses >= stats.misses]_<<stats.requests, stats.hits, stats.misses>>

C26_SetNeverEvictsItsKey ==
    \A c \in Callers :
        \A g \in 1..Len(cmSets[c].gone) : cmSets[c].gone[g].key # cmSets[c].key

\* C27: every delete of an eviction pass removes an entry: the entries a
\* pass has removed are as many as the deletes it has made, which is what it
\* adds to evictionCount.
C27_EvictionCountIsRemovals ==
    \A c \in Callers :
        cmSets[c].pc # "idle" => Len(cmSets[c].gone) = cmSets[c].i

\* the steps that are known to be a 'connect': they empty the delays counted
\* since the last 'connect', or mark the pending timeout as older than it
ConnectStep ==
    /\ isConnected'
    /\ \/ attemptDelays # <<>> /\ attemptDelays' = <<>>
       \/ ~reconnectTimer.stale /\ reconnectTimer'.stale

C29_RetriesWithinMax ==
    retried <= options.maxRetries

\* C30: with enableCancel, an execution that settles after a later execute
\* has started writes neither its result nor its error to the state.
C30_SupersededNeverWrites ==
    [][\A i \in 1..Len(runs) :
          (/\ options.enableCancel
           /\ i < Len(runs)
           /\ runs[i].pc = "running"
           /\ runs'[i].pc # "running")
          => /\ hookState'.data = hookState.data
             /\ hookState'.error = hookState.error]_hookVars

====
